---------------------------- MODULE Spec2Model ----------------------------
(***************************************************************************)
(* Model of web_app/static/js/script.js: the feedback forms' submit        *)
(* listeners, the feedback-btn click listener, submitFeedback's promise    *)
(* chain, showAlert with its auto-dismiss timer, and ScholarshipAPI.       *)
(*                                                                         *)
(* The browser is single threaded: a listener or a promise continuation    *)
(* runs to completion, and the continuations of one settled promise chain  *)
(* (then, catch, finally) run in the same microtask checkpoint.  The model *)
(* keeps one action per listener and per continuation and lets no other    *)
(* task start while a dispatch or a chain is running (Idle).               *)
(***************************************************************************)
EXTENDS Integers, Sequences, FiniteSets, TLC

(* ------------------------------ bounds -------------------------------- *)
\* feedback requests issued in one behaviour
MaxRequests == 2
\* getRecommendations calls in one behaviour
MaxCalls == 2
\* the longest step of the clock, in ms
TickMs == 2500

(* --------------------------- JavaScript values ------------------------ *)
\* the value undefined (a missing property, a missing argument)
Undefined == "<undefined>"
\* String(v), as string concatenation and FormData.append apply it
ToStr(v) == IF v = Undefined THEN "undefined" ELSE v

(* ------------------------------ the page ------------------------------ *)
Forms == {1, 2, 3}
Panels == {1, 2}
NoPanel == 0

\* the id attribute of panel p, and the data-bs-target of its feedback-btn
PanelId(p) == <<"fb", p>>
BtnTarget(p) == <<"#">> \o PanelId(p)

SubmitLabel == "<i class=\"fas fa-check\"></i> Submit"
BusyLabel == "<i class=\"fas fa-spinner fa-spin\"></i> Processing..."

\* The documents the script is loaded in.  feedback: the forms of class
\* feedback-form; panelOf: the nearest ancestor of class collapse (NoPanel: none);
\* hasBtn: the form holds a button[type="submit"]; label: that button's markup;
\* student, scholarship: the form's data attributes; shown: the panels whose
\* markup carries class show (expanded before any toggle was clicked).
Layouts ==
    { [feedback    |-> {1, 2},
       panelOf     |-> <<1, 2, NoPanel>>,
       hasBtn      |-> <<TRUE, TRUE, TRUE>>,
       label       |-> <<SubmitLabel, SubmitLabel, "Search">>,
       student     |-> <<"42", "42", Undefined>>,
       scholarship |-> <<"A", "B", Undefined>>,
       shown       |-> {}],
      [feedback    |-> {1, 2},
       panelOf     |-> <<1, NoPanel, NoPanel>>,
       hasBtn      |-> <<TRUE, FALSE, TRUE>>,
       label       |-> <<"Send feedback", "", "Search">>,
       student     |-> <<"42", "7", Undefined>>,
       scholarship |-> <<"A", "B", Undefined>>,
       shown       |-> {1}] }

FieldValues == {"", "useful"}

VARIABLES
    page,       \* the document's layout (never changes)
    fields,     \* fields[f]: the value of form f's field ("" is its default)
    btn,        \* btn[f]: [label, disabled] of form f's submit button
    shown,      \* the panels that carry class show
    inst,       \* the panels that have a bootstrap.Collapse instance
    dispatch,   \* the feedback form whose submit event is between its two listeners, or 0
    reqs,       \* the /feedback requests issued, in order, with their chain's position
    alerts,     \* the alerts created by showAlert, in order of creation
    console,    \* what console.error was called with
    uncaught,   \* the handlers an exception escaped from
    calls,      \* the getRecommendations calls, in order
    sent,       \* every request handed to fetch: [method, url]
    score,      \* the score handed to the utility functions: <<s>>, or <<>> when there is none
    scoreColor, \* what getScoreColor returned for it, Undefined before the call
    scoreText   \* what formatScore returned for it, Undefined before the call

\* what the utility functions read and return
scoreVars == <<score, scoreColor, scoreText>>

vars == <<page, fields, btn, shown, inst, dispatch, reqs, alerts, console, uncaught, calls, sent,
          score, scoreColor, scoreText>>

\* the promise continuations of submitFeedback that run within one microtask checkpoint
RunningPcs == {"then1", "then2", "catch", "finally"}

\* no listener and no promise chain is running: the event loop may start a task
Idle ==
    /\ dispatch = 0
    /\ \A r \in DOMAIN reqs : reqs[r].pc \notin RunningPcs

\* the document and the script's own state once DOMContentLoaded has run
InitPage ==
    /\ page \in Layouts
    /\ fields = [f \in Forms |-> ""]
    /\ btn = [f \in Forms |-> [label |-> page.label[f], disabled |-> FALSE]]
    /\ shown = page.shown
    /\ inst = {}
    /\ dispatch = 0
    /\ reqs = <<>>
    /\ alerts = <<>>
    /\ console = <<>>
    /\ uncaught = {}
    /\ calls = <<>>
    /\ sent = <<>>

\* nothing in the script calls the utility functions: no score is at hand
Init ==
    /\ InitPage
    /\ score = <<>>
    /\ scoreColor = Undefined
    /\ scoreText = Undefined

(* ------------------------- the submit listeners ----------------------- *)
\* a variant that reads the two ids from the first feedback form of the document
FormPayload_FirstForm(f) ==
    LET g == CHOOSE x \in page.feedback : \A y \in page.feedback : x <= y
    IN  [field          |-> fields[f],
         student_id     |-> ToStr(page.student[g]),
         scholarship_id |-> ToStr(page.scholarship[g])]

\* new FormData(form) with student_id and scholarship_id appended
FormPayload(f) ==
    [field          |-> fields[f],
     student_id     |-> ToStr(page.student[f]),
     scholarship_id |-> ToStr(page.scholarship[f])]

\* fetch('/feedback', {method: 'POST', body: formData}): the request is in flight
\* form, body: the arguments of submitFeedback; pc: where its promise chain is;
\* data, error: what the chain's promise holds; fx: what the chain's callbacks
\* did so far, in order; before: the submit button when the submit event began
NewRequest(f, formData) ==
    [form |-> f, body |-> formData, pc |-> "fetch", data |-> [kind |-> "none"],
     error |-> Undefined, fx |-> <<>>,
     before |-> btn[f]]

\* the user edits the field of a form
EditField(f, v) ==
    /\ Idle
    /\ f \in page.feedback
    /\ fields[f] # v
    /\ fields' = [fields EXCEPT ![f] = v]
    /\ UNCHANGED <<page, scoreVars, btn, shown, inst, dispatch, reqs, alerts, console, uncaught, calls, sent>>

\* form f is displayed: it lies in no panel, or in an expanded one
Displayed(f) == page.panelOf[f] = NoPanel \/ page.panelOf[f] \in shown

\* A submit event on a displayed feedback form, and its first listener: it calls
\* submitFeedback, which issues the request and returns.  The listener does not
\* look at the submit button: an event that another submitter of the form
\* raises while the button is disabled is handled like the first.
FeedbackSubmit(f) ==
    /\ Idle
    /\ f \in page.feedback
    /\ Displayed(f)
    /\ Len(reqs) < MaxRequests
    /\ reqs' = Append(reqs, NewRequest(f, FormPayload(f)))
    /\ sent' = Append(sent, [method |-> "POST", url |-> "/feedback"])
    /\ dispatch' = f
    /\ UNCHANGED <<page, scoreVars, fields, btn, shown, inst, alerts, console, uncaught, calls>>

\* a variant that swaps the label and leaves the button enabled
BusyButton_LabelOnly(f) ==
    IF page.hasBtn[f]
    THEN [btn EXCEPT ![f].label = BusyLabel]
    ELSE btn

\* the busy state the generic submit listener gives the form's submit button
BusyButton(f) ==
    IF page.hasBtn[f]
    THEN [btn EXCEPT ![f] = [label |-> BusyLabel, disabled |-> TRUE]]
    ELSE btn

\* the submit listener every form has: second on a feedback form, alone elsewhere
LoadingSubmit(f) ==
    /\ \/ dispatch = f
       \/ Idle /\ f \notin page.feedback
    /\ btn' = BusyButton(f)
    /\ dispatch' = 0
    /\ UNCHANGED <<page, scoreVars, fields, shown, inst, reqs, alerts, console, uncaught, calls, sent>>

(* ------------------------------ showAlert ------------------------------ *)
\* the delay handed to setTimeout, in ms
AutoDismissMs == 5000

\* the most alerts a behaviour creates: each chain shows two at most
MaxAlerts == 2 * MaxRequests

\* the alert element showAlert builds and inserts, with its timer set.
\* age: the ms since its creation, counted until its timer goes off; fires: how
\* often its timer callback ran; dismissed: the user closed it.
NewAlert(message, type) ==
    [message   |-> message,
     className |-> "alert alert-" \o type \o " alert-dismissible fade show",
     attached  |-> TRUE,
     age       |-> 0,
     fires     |-> 0,
     dismissed |-> FALSE]

\* showAlert(message, type): the alerts after the call
ShowAlert(as, message, type) == Append(as, NewAlert(message, type))

\* a timer callback that removes nothing
TimerCallback_Noop(as, a) == as

\* the alerts attached to the page, as records of as
AttachedIn(as) == {b \in DOMAIN as : as[b].attached}

\* a timer callback that, when its alert has no parent, removes the
\* container's first child, which is the newest alert in the page
TimerCallback_RemovesFirstChild(as, a) ==
    IF as[a].attached THEN [as EXCEPT ![a].attached = FALSE]
    ELSE IF AttachedIn(as) = {} THEN as
    ELSE [as EXCEPT ![CHOOSE b \in AttachedIn(as) : \A x \in AttachedIn(as) : x <= b].attached = FALSE]

\* the timer callback of alert a: remove the alert if it still has a parent
TimerCallback(as, a) ==
    IF as[a].attached THEN [as EXCEPT ![a].attached = FALSE] ELSE as

\* the timers that have not gone off
PendingTimers == {a \in DOMAIN alerts : alerts[a].fires = 0}

\* the timer of alert a is due
TimerDue(a) == alerts[a].fires = 0 /\ alerts[a].age = AutoDismissMs

\* the auto-dismiss timer of alert a goes off, once
TimerFires(a) ==
    /\ Idle
    /\ a \in DOMAIN alerts
    /\ TimerDue(a)
    /\ alerts' = [TimerCallback(alerts, a) EXCEPT ![a].fires = @ + 1]
    /\ UNCHANGED <<page, scoreVars, fields, btn, shown, inst, dispatch, reqs, console, uncaught, calls, sent>>

\* the user closes alert a with its btn-close (data-bs-dismiss="alert")
DismissAlert(a) ==
    /\ Idle
    /\ a \in DOMAIN alerts
    /\ alerts[a].attached
    /\ alerts' = [alerts EXCEPT ![a].attached = FALSE, ![a].dismissed = TRUE]
    /\ UNCHANGED <<page, scoreVars, fields, btn, shown, inst, dispatch, reqs, console, uncaught, calls, sent>>

Min(S) == CHOOSE x \in S : \A y \in S : x <= y

\* time passes: up to the next timer that is due, and by TickMs at most
Tick ==
    /\ Idle
    /\ PendingTimers # {}
    /\ \A a \in PendingTimers : ~TimerDue(a)
    /\ LET d == Min({TickMs} \cup {AutoDismissMs - alerts[a].age : a \in PendingTimers})
       IN alerts' = [a \in DOMAIN alerts |->
                        IF alerts[a].fires = 0
                        THEN [alerts[a] EXCEPT !.age = @ + d]
                        ELSE alerts[a]]
    /\ UNCHANGED <<page, scoreVars, fields, btn, shown, inst, dispatch, reqs, console, uncaught, calls, sent>>

(* --------------------------- submitFeedback --------------------------- *)
\* what response.json() can give: an object (a field may be missing), or null
Bodies ==
    { [kind |-> "object", status |-> "success", error |-> Undefined],
      [kind |-> "object", status |-> "error", error |-> "quota exceeded"],
      [kind |-> "object", status |-> Undefined, error |-> Undefined],
      [kind |-> "null"] }

SuccessMessage == "Thank you for your feedback!"
ErrorPrefix == "Error submitting feedback: "
RetryMessage == "Error submitting feedback. Please try again."

\* the request of chain r is answered, or fails (the fetch promise settles)
FetchSettles(r, ok) ==
    /\ Idle
    /\ r \in DOMAIN reqs
    /\ reqs[r].pc = "fetch"
    /\ reqs' = IF ok THEN [reqs EXCEPT ![r].pc = "then1"]
               ELSE [reqs EXCEPT ![r].pc = "catch", ![r].error = "TypeError: Failed to fetch"]
    /\ UNCHANGED <<page, scoreVars, fields, btn, shown, inst, dispatch, alerts, console, uncaught, calls, sent>>

\* .then(response => response.json()): the body is read asynchronously
ThenJson(r) ==
    /\ r \in DOMAIN reqs
    /\ reqs[r].pc = "then1"
    /\ reqs' = [reqs EXCEPT ![r].pc = "json"]
    /\ UNCHANGED <<page, scoreVars, fields, btn, shown, inst, dispatch, alerts, console, uncaught, calls, sent>>

\* the promise of response.json() settles: with the decoded body, or rejected
JsonSettles(r, decodes, body) ==
    /\ Idle
    /\ r \in DOMAIN reqs
    /\ reqs[r].pc = "json"
    /\ reqs' = IF decodes THEN [reqs EXCEPT ![r].pc = "then2", ![r].data = body]
               ELSE [reqs EXCEPT ![r].pc = "catch", ![r].error = "SyntaxError: Unexpected token"]
    /\ UNCHANGED <<page, scoreVars, fields, btn, shown, inst, dispatch, alerts, console, uncaught, calls, sent>>

\* bootstrap.Collapse.getInstance(p).hide(): hide throws on the null that
\* getInstance returns for a panel without an instance
HideThrows(p) == p \notin inst
Hidden(sh, p) == sh \ {p}

\* formElement.reset()
ResetForm(fs, f) == [fs EXCEPT ![f] = ""]

\* .then(data => ...), the success branch
ThenSuccess(r) ==
    LET f == reqs[r].form
        p == page.panelOf[f]
    IN /\ alerts' = ShowAlert(alerts, SuccessMessage, "success")
       /\ fields' = ResetForm(fields, f)
       /\ IF p = NoPanel
          THEN /\ shown' = shown
               /\ reqs' = [reqs EXCEPT ![r].pc = "finally",
                                       ![r].fx = @ \o <<<<"alert", Len(alerts')>>, <<"reset">>>>]
          ELSE IF HideThrows(p)
          THEN /\ shown' = shown
               /\ reqs' = [reqs EXCEPT ![r].pc = "catch",
                                       ![r].error = "TypeError: null has no hide",
                                       ![r].fx = @ \o <<<<"alert", Len(alerts')>>, <<"reset">>>>]
          ELSE /\ shown' = Hidden(shown, p)
               /\ reqs' = [reqs EXCEPT ![r].pc = "finally",
                                       ![r].fx = @ \o <<<<"alert", Len(alerts')>>, <<"reset">>, <<"hide">>>>]

\* an else branch that also resets the form
ThenFailure_Resets(r) ==
    /\ alerts' = ShowAlert(alerts, ErrorPrefix \o ToStr(reqs[r].data.error), "danger")
    /\ reqs' = [reqs EXCEPT ![r].pc = "finally", ![r].fx = @ \o <<<<"alert", Len(alerts')>>>>]
    /\ fields' = ResetForm(fields, reqs[r].form)
    /\ UNCHANGED shown

\* .then(data => ...), the else branch
ThenFailure(r) ==
    /\ alerts' = ShowAlert(alerts, ErrorPrefix \o ToStr(reqs[r].data.error), "danger")
    /\ reqs' = [reqs EXCEPT ![r].pc = "finally", ![r].fx = @ \o <<<<"alert", Len(alerts')>>>>]
    /\ UNCHANGED <<fields, shown>>

\* .then(data => ...): reading data.status of null throws
ThenData(r) ==
    /\ r \in DOMAIN reqs
    /\ reqs[r].pc = "then2"
    /\ IF reqs[r].data.kind # "object"
       THEN /\ reqs' = [reqs EXCEPT ![r].pc = "catch",
                                    ![r].error = "TypeError: null has no status"]
            /\ UNCHANGED <<alerts, fields, shown>>
       ELSE IF reqs[r].data.status = "success"
       THEN ThenSuccess(r)
       ELSE ThenFailure(r)
    /\ UNCHANGED <<page, scoreVars, btn, inst, dispatch, console, uncaught, calls, sent>>

\* a catch callback that shows the error it caught
CatchError_Leaks(r) ==
    /\ r \in DOMAIN reqs
    /\ reqs[r].pc = "catch"
    /\ console' = Append(console, <<"Error:", reqs[r].error>>)
    /\ alerts' = ShowAlert(alerts, ErrorPrefix \o ToStr(reqs[r].error), "danger")
    /\ reqs' = [reqs EXCEPT ![r].pc = "finally", ![r].fx = @ \o <<<<"log">>, <<"alert", Len(alerts')>>>>]
    /\ UNCHANGED <<page, scoreVars, fields, btn, shown, inst, dispatch, uncaught, calls, sent>>

\* .catch(error => ...)
CatchError(r) ==
    /\ r \in DOMAIN reqs
    /\ reqs[r].pc = "catch"
    /\ console' = Append(console, <<"Error:", reqs[r].error>>)
    /\ alerts' = ShowAlert(alerts, RetryMessage, "danger")
    /\ reqs' = [reqs EXCEPT ![r].pc = "finally", ![r].fx = @ \o <<<<"log">>, <<"alert", Len(alerts')>>>>]
    /\ UNCHANGED <<page, scoreVars, fields, btn, shown, inst, dispatch, uncaught, calls, sent>>

\* a finally callback that forgets the button
ReenableButton_Forgotten(f) == btn

\* a finally callback that enables the button and leaves its label
ReenableButton_KeepLabel(f) ==
    IF page.hasBtn[f] THEN [btn EXCEPT ![f].disabled = FALSE] ELSE btn

\* a finally callback that looks its button up in the document, not in the form
ReenableButton_FirstButton(f) ==
    IF \E g \in Forms : page.hasBtn[g]
    THEN LET g == CHOOSE x \in Forms : page.hasBtn[x] /\ \A y \in Forms : page.hasBtn[y] => x <= y
         IN  [btn EXCEPT ![g] = [label |-> SubmitLabel, disabled |-> FALSE]]
    ELSE btn

\* a finally callback that enables every submit button of the document
ReenableButton_AllButtons(f) ==
    [g \in Forms |-> IF page.hasBtn[g]
                     THEN [label |-> SubmitLabel, disabled |-> FALSE]
                     ELSE btn[g]]

\* the button of form f after the finally callback
ReenableButton(f) ==
    IF page.hasBtn[f]
    THEN [btn EXCEPT ![f] = [label |-> SubmitLabel, disabled |-> FALSE]]
    ELSE btn

\* .finally(() => ...)
FinallyReenable(r) ==
    /\ r \in DOMAIN reqs
    /\ reqs[r].pc = "finally"
    /\ btn' = ReenableButton(reqs[r].form)
    /\ reqs' = [reqs EXCEPT ![r].pc = "done"]
    /\ UNCHANGED <<page, scoreVars, fields, shown, inst, dispatch, alerts, console, uncaught, calls, sent>>

(* ---------------------- the feedback-btn listener --------------------- *)
\* target.substring(1) of a target "#id"
Substring1(target) == Tail(target)

\* document.querySelectorAll('.collapse.show'), in document order
RECURSIVE InOrder(_, _)
InOrder(S, n) ==
    IF n > Cardinality(Panels) THEN <<>>
    ELSE (IF n \in S THEN <<n>> ELSE <<>>) \o InOrder(S, n + 1)
OpenCollapses == InOrder(shown, 1)

\* the forEach over the open panels: each one that is not the target is hidden;
\* the exception of a panel without an instance ends the loop
RECURSIVE CloseOthers(_, _, _)
CloseOthers(todo, target, sh) ==
    IF todo = <<>> THEN [shown |-> sh, threw |-> FALSE]
    ELSE IF PanelId(Head(todo)) # Substring1(target)
         THEN IF HideThrows(Head(todo))
              THEN [shown |-> sh, threw |-> TRUE]
              ELSE CloseOthers(Tail(todo), target, Hidden(sh, Head(todo)))
         ELSE CloseOthers(Tail(todo), target, sh)

\* bootstrap's own click handler, on the document: it runs after the button's
\* listener, creates the target's instance if needed and toggles the target
BootstrapToggle(sh, p) == IF p \in sh THEN sh \ {p} ELSE sh \cup {p}

\* a click on the feedback-btn of panel p
ClickFeedbackBtn(p) ==
    /\ Idle
    /\ LET res == CloseOthers(OpenCollapses, BtnTarget(p), shown)
       IN /\ shown' = BootstrapToggle(res.shown, p)
          /\ uncaught' = IF res.threw THEN uncaught \cup {"feedback-btn click"} ELSE uncaught
    /\ inst' = inst \cup {p}
    /\ UNCHANGED <<page, scoreVars, fields, btn, dispatch, reqs, alerts, console, calls, sent>>

(* ---------------------------- ScholarshipAPI --------------------------- *)
StudentIds == {"42", "7"}
\* the arguments after studentId: none, or topN
TopNArgs == {<<>>, <<3>>, <<25>>}
\* the default value of the parameter topN
DefaultTopN == 10

\* what response.json() can give for a recommendation request
ApiBodies ==
    { [kind |-> "array", items |-> <<"S1", "S2">>],
      [kind |-> "object", error |-> "unknown student"],
      [kind |-> "null"] }
NullResult == [kind |-> "null"]

\* the parameter topN: the default stands in for a missing argument
TopNParam(args) == IF args = <<>> THEN DefaultTopN ELSE args[1]

\* `/api/recommend/${studentId}?top_n=${topN}`
RecommendUrl(studentId, args) ==
    "/api/recommend/" \o studentId \o "?top_n=" \o ToString(TopNParam(args))

\* getRecommendations(studentId, ...args) is called: it issues its request and
\* suspends at the first await
GetRecommendations(studentId, args) ==
    /\ Len(calls) < MaxCalls
    /\ calls' = Append(calls, [studentId |-> studentId, args |-> args, pc |-> "fetch",
                               outcome |-> "pending", body |-> [kind |-> "none"],
                               result |-> [kind |-> "none"]])
    /\ sent' = Append(sent, [method |-> "GET", url |-> RecommendUrl(studentId, args)])
    /\ UNCHANGED <<page, scoreVars, fields, btn, shown, inst, dispatch, reqs, alerts, console, uncaught>>

\* a catch block that logs and throws the error again
ApiCatch_Rethrows(c, cause) ==
    /\ console' = Append(console, <<"API Error:", cause>>)
    /\ calls' = [calls EXCEPT ![c].pc = "rejected", ![c].outcome = cause]

\* the catch block: log, return null
ApiCatch(c, cause) ==
    /\ console' = Append(console, <<"API Error:", cause>>)
    /\ calls' = [calls EXCEPT ![c].pc = "returned", ![c].outcome = cause,
                              ![c].result = NullResult]

\* the fetch promise of call c settles: the function resumes, or its catch runs
ApiFetchSettles(c, ok) ==
    /\ c \in DOMAIN calls
    /\ calls[c].pc = "fetch"
    /\ IF ok
       THEN /\ calls' = [calls EXCEPT ![c].pc = "json"]
            /\ console' = console
       ELSE ApiCatch(c, "TypeError: Failed to fetch")
    /\ UNCHANGED <<page, scoreVars, fields, btn, shown, inst, dispatch, reqs, alerts, uncaught, sent>>

\* return await response.json()
ApiReturn(c, body) ==
    /\ console' = console
    /\ calls' = [calls EXCEPT ![c].pc = "returned", ![c].outcome = "decoded",
                              ![c].body = body, ![c].result = body]

\* the promise of response.json() settles: the decoded body is returned, or the
\* catch runs
ApiJsonSettles(c, decodes, body) ==
    /\ c \in DOMAIN calls
    /\ calls[c].pc = "json"
    /\ IF decodes THEN ApiReturn(c, body) ELSE ApiCatch(c, "SyntaxError: Unexpected token")
    /\ UNCHANGED <<page, scoreVars, fields, btn, shown, inst, dispatch, reqs, alerts, uncaught, sent>>

(* ------------------------- utility functions -------------------------- *)
\* A score is a decimal fraction with ScoreDigits digits after the point, held
\* as its numerator over ScoreScale: 0.873 is 8730 over 10000.
ScoreDigits == 4
ScoreScale == 10 ^ ScoreDigits
\* the scores of [0, 1]
Scores == 0 .. ScoreScale

\* the literals 0.8 and 0.6 of getScoreColor, over ScoreScale
SuccessFrom == (8 * ScoreScale) \div 10
WarningFrom == (6 * ScoreScale) \div 10

\* a variant that leaves the two boundaries to the lower tier
getScoreColor_Strict(s) ==
    IF s > SuccessFrom THEN "success"
    ELSE IF s > WarningFrom THEN "warning"
    ELSE "secondary"

getScoreColor(s) ==
    IF s >= SuccessFrom THEN "success"
    ELSE IF s >= WarningFrom THEN "warning"
    ELSE "secondary"

\* the decimal digits of v, padded with zeros to width w
RECURSIVE Digits(_, _)
Digits(v, w) == IF w = 0 THEN "" ELSE Digits(v \div 10, w - 1) \o ToString(v % 10)

\* the decimal string of n / 10^f with f digits after the point
FixedString(n, f) ==
    IF f = 0 THEN ToString(n)
    ELSE ToString(n \div (10 ^ f)) \o "." \o Digits(n % (10 ^ f), f)

\* a variant that cuts the digits off instead of rounding
toFixed_Truncates(num, den, f) == FixedString((num * (10 ^ f)) \div den, f)

\* Number.prototype.toFixed(f) of the number num / den >= 0: with n the integer
\* for which n / 10^f - x is closest to zero, the larger n if there are two,
\* the digits of n with a point before the last f
toFixed(num, den, f) == FixedString((2 * num * (10 ^ f) + den) \div (2 * den), f)

\* (score * 100).toFixed(1) + '%'
formatScore(s) == toFixed(s * 100, ScoreScale, 1) \o "%"

\* a caller hands the score to getScoreColor
GetScoreColor ==
    /\ score # <<>>
    /\ scoreColor = Undefined
    /\ scoreColor' = getScoreColor(score[1])
    /\ UNCHANGED <<page, fields, btn, shown, inst, dispatch, reqs, alerts, console, uncaught,
                   calls, sent, score, scoreText>>

\* a caller hands the score to formatScore
FormatScore ==
    /\ score # <<>>
    /\ scoreText = Undefined
    /\ scoreText' = formatScore(score[1])
    /\ UNCHANGED <<page, fields, btn, shown, inst, dispatch, reqs, alerts, console, uncaught,
                   calls, sent, score, scoreColor>>

(* --------------------------- specifications --------------------------- *)
\* one promise chain of submitFeedback, from its request to its finally callback
ChainStep(r) ==
    \/ \E ok \in BOOLEAN : FetchSettles(r, ok)
    \/ ThenJson(r)
    \/ \E decodes \in BOOLEAN, body \in Bodies : JsonSettles(r, decodes, body)
    \/ ThenData(r)
    \/ CatchError(r)
    \/ FinallyReenable(r)

\* the submissions, their requests and the panels
NextSubmissions ==
    \/ \E f \in Forms : FeedbackSubmit(f)
    \/ \E f \in Forms : LoadingSubmit(f)
    \/ \E r \in 1..MaxRequests : ChainStep(r)
    \/ \E p \in Panels : ClickFeedbackBtn(p)

\* the same, with the user editing the forms
NextFeedback ==
    \/ \E f \in Forms, v \in FieldValues : EditField(f, v)
    \/ NextSubmissions

SpecFeedback == Init /\ [][NextFeedback]_vars

\* The event loop runs every listener and continuation it has queued, and no
\* request stays unanswered for ever.  The user's edits are left out: the forms
\* keep their default values.
FairFeedback ==
    /\ Init /\ [][NextSubmissions]_vars
    /\ \A f \in Forms : WF_vars(LoadingSubmit(f))
    /\ \A r \in 1..MaxRequests : WF_vars(ChainStep(r))

\* the alerts: the feedback requests that call showAlert, the timers, the user
\* closing an alert, and the clock
NextAlerts ==
    \/ \E f \in Forms : FeedbackSubmit(f)
    \/ \E f \in Forms : LoadingSubmit(f)
    \/ \E r \in 1..MaxRequests : ChainStep(r)
    \/ \E a \in 1..MaxAlerts : TimerFires(a)
    \/ \E a \in 1..MaxAlerts : DismissAlert(a)
    \/ Tick

SpecAlerts == Init /\ [][NextAlerts]_vars

\* time passes, a timer that is due goes off, and the event loop runs every
\* listener and continuation it has queued
FairAlerts ==
    /\ SpecAlerts
    /\ \A f \in Forms : WF_vars(LoadingSubmit(f))
    /\ \A r \in 1..MaxRequests : WF_vars(ChainStep(r))
    /\ WF_vars(Tick)
    /\ \A a \in 1..MaxAlerts : WF_vars(TimerFires(a))

\* ScholarshipAPI.getRecommendations and its requests
NextApi ==
    \/ \E studentId \in StudentIds, args \in TopNArgs : GetRecommendations(studentId, args)
    \/ \E c \in 1..MaxCalls, ok \in BOOLEAN : ApiFetchSettles(c, ok)
    \/ \E c \in 1..MaxCalls, decodes \in BOOLEAN, body \in ApiBodies : ApiJsonSettles(c, decodes, body)

SpecApi == Init /\ [][NextApi]_vars

\* the utility functions, applied to any score of [0, 1]
InitScores ==
    /\ InitPage
    /\ \E s \in Scores : score = <<s>>
    /\ scoreColor = Undefined
    /\ scoreText = Undefined

NextScores == GetScoreColor \/ FormatScore

SpecScores == InitScores /\ [][NextScores]_vars

\* the whole script
Next == NextFeedback \/ NextAlerts \/ NextApi \/ NextScores
Spec == Init /\ [][Next]_vars

(* ------------------------------- claims ------------------------------- *)
\* the requests whose chain has run its finally callback
Done == {r \in DOMAIN reqs : reqs[r].pc = "done"}
\* the alerts that the callbacks of chain r showed
AlertsOf(r) == {e[2] : e \in {x \in {reqs[r].fx[i] : i \in DOMAIN reqs[r].fx} : x[1] = "alert"}}
Did(r, what) == \E i \in DOMAIN reqs[r].fx : reqs[r].fx[i] = <<what>>
IsSuccessAlert(a) ==
    /\ alerts[a].message = "Thank you for your feedback!"
    /\ alerts[a].className = "alert alert-success alert-dismissible fade show"
IsErrorAlert(a) == alerts[a].className = "alert alert-danger alert-dismissible fade show"
\* the finally callback of chain r runs in this step
FinallyRuns(r) == r \in DOMAIN reqs /\ reqs[r].pc = "finally" /\ reqs'[r].pc = "done"

\* C1: once the request of a submission has settled (answered or failed), the
\* chain reaches its finally callback and the form's submit button is enabled
\* then, whatever path the chain took; the finally callback never leaves the
\* button disabled.
C1_ButtonReenabled ==
    /\ \A r \in 1..MaxRequests :
          (r \in DOMAIN reqs /\ reqs[r].pc # "fetch")
             ~> (/\ r \in DOMAIN reqs
                 /\ reqs[r].pc = "done"
                 /\ page.hasBtn[reqs[r].form] => ~btn[reqs[r].form].disabled)
    /\ [][\A r \in 1..MaxRequests :
             FinallyRuns(r) /\ page.hasBtn[reqs[r].form] => ~btn'[reqs[r].form].disabled]_vars

\* a chain that went through the catch callback has ended with the button enabled
C1_Witness ==
    \E r \in Done :
        /\ Did(r, "log")
        /\ page.hasBtn[reqs[r].form]
        /\ reqs[r].before.disabled = FALSE
        /\ ~btn[reqs[r].form].disabled

\* outcome (a): one success alert, the form reset, its panel closed, no error alert
SuccessOutcome(r) ==
    /\ Cardinality(AlertsOf(r)) = 1
    /\ \A a \in AlertsOf(r) : IsSuccessAlert(a)
    /\ Did(r, "reset")
    /\ page.panelOf[reqs[r].form] # NoPanel => Did(r, "hide")
\* outcome (b): one error alert, no reset, no success alert
ErrorOutcome(r) ==
    /\ Cardinality(AlertsOf(r)) = 1
    /\ \A a \in AlertsOf(r) : IsErrorAlert(a)
    /\ ~Did(r, "reset")

\* C2: every submission ends in exactly one of the outcomes (a) and (b).
C2_ExactlyOneOutcome ==
    \A r \in Done : SuccessOutcome(r) # ErrorOutcome(r)

\* C3: when a submission completes, the submit button has the label and the
\* disabled flag it had immediately before the submit event.
C3_LabelRoundTrip ==
    [][\A r \in 1..MaxRequests :
          FinallyRuns(r) /\ page.hasBtn[reqs[r].form]
             => btn'[reqs[r].form] = reqs[r].before]_vars

\* C3, amended: when a submission completes, the submit button is enabled and
\* its label is the fixed markup of the finally callback, whatever it was before
\* the submit event; a form without a submit button is left as it is.
C3_FixedLabel ==
    [][\A r \in 1..MaxRequests :
          FinallyRuns(r)
             => /\ page.hasBtn[reqs[r].form]
                   => btn'[reqs[r].form] =
                         [label |-> "<i class=\"fas fa-check\"></i> Submit", disabled |-> FALSE]
                /\ \A f \in Forms :
                      f # reqs[r].form \/ ~page.hasBtn[f] => btn'[f] = btn[f]]_vars

\* a submission has completed on a button that had another label before
C3_Witness ==
    \E r \in Done :
        /\ reqs[r].before.label = "Send feedback"
        /\ btn[reqs[r].form].label = "<i class=\"fas fa-check\"></i> Submit"
        /\ ~btn[reqs[r].form].disabled

\* C4: a click on a feedback-btn closes every other expanded panel without an
\* error, so that a page that starts with at most one expanded panel never has
\* two expanded panels and no exception escapes the listener.
C4_SingleOpenPanel ==
    /\ Cardinality(shown) <= 1
    /\ "feedback-btn click" \notin uncaught

\* the decoded body of chain r is an object
Decoded(r) == reqs[r].data.kind = "object"
\* the then callback of chain r has run (or was skipped)
Handled(r) == r \in DOMAIN reqs /\ reqs[r].pc \in {"finally", "done"}

\* C5: on a body whose status is "success" the chain shows one success alert,
\* resets the form and closes the form's panel if it has one, and does nothing
\* else: no error is logged and no error alert is shown.
C5_SuccessEffects ==
    \A r \in Done :
        Decoded(r) /\ reqs[r].data.status = "success"
           => \E a \in DOMAIN alerts :
                 /\ IsSuccessAlert(a)
                 /\ reqs[r].fx = <<<<"alert", a>>, <<"reset">>>>
                       \o (IF page.panelOf[reqs[r].form] = NoPanel THEN <<>> ELSE <<<<"hide">>>>)

\* C6: on a decoded body whose status is not "success" the chain shows exactly
\* one alert, of severity danger, whose text is the prefix followed by the
\* body's error field (the text "undefined" for a missing one), and the callback
\* changes neither the form's fields nor any panel.
C6_ApplicationError ==
    /\ [](\A r \in 1..MaxRequests :
            Handled(r) /\ Decoded(r) /\ reqs[r].data.status # "success"
               => \E a \in DOMAIN alerts :
                     /\ reqs[r].fx = <<<<"alert", a>>>>
                     /\ alerts[a].className = "alert alert-danger alert-dismissible fade show"
                     /\ alerts[a].message =
                           (IF reqs[r].data.error = "quota exceeded"
                            THEN "Error submitting feedback: quota exceeded"
                            ELSE "Error submitting feedback: undefined"))
    /\ [][\A r \in 1..MaxRequests :
             (/\ r \in DOMAIN reqs
              /\ reqs[r].pc = "then2"
              /\ Decoded(r)
              /\ reqs[r].data.status # "success")
                => /\ reqs'[r].pc = "finally"
                   /\ UNCHANGED <<fields, shown, inst, btn, uncaught, console>>]_vars

\* a body with status "error" was handled while the form held the user's text
C6_Witness ==
    \E r \in Done :
        /\ Decoded(r)
        /\ reqs[r].data.status = "error"
        /\ reqs[r].body.field = "useful"
        /\ fields[reqs[r].form] = "useful"
        /\ page.panelOf[reqs[r].form] \in shown

\* C7: when the request is rejected or its body cannot be decoded, the chain
\* logs the error and shows exactly one alert, of severity danger, with the fixed
\* retry message; the callback changes neither the form's fields nor any panel,
\* and no exception escapes.
C7_TransportError ==
    /\ [](\A r \in 1..MaxRequests :
            Handled(r) /\ reqs[r].data.kind = "none"
               => /\ \E a \in DOMAIN alerts :
                        /\ reqs[r].fx = <<<<"log">>, <<"alert", a>>>>
                        /\ alerts[a].className = "alert alert-danger alert-dismissible fade show"
                        /\ alerts[a].message = "Error submitting feedback. Please try again."
                  /\ \E i \in DOMAIN console : console[i] = <<"Error:", reqs[r].error>>)
    /\ [][\A r \in 1..MaxRequests :
             /\ (/\ r \in DOMAIN reqs
                 /\ reqs[r].pc = "catch"
                 /\ reqs[r].data.kind = "none")
                   => /\ reqs'[r].pc = "finally"
                      /\ UNCHANGED <<fields, shown, inst, btn, uncaught>>
             /\ FinallyRuns(r) /\ reqs[r].data.kind = "none"
                   => UNCHANGED <<fields, shown, inst, uncaught>>]_vars

\* a rejected request and an undecodable body were both handled, the first
\* while the form held the user's text in an expanded panel
C7_Witness ==
    \E r, q \in Done :
        /\ reqs[r].error = "TypeError: Failed to fetch"
        /\ reqs[q].error = "SyntaxError: Unexpected token"
        /\ fields[reqs[r].form] = "useful"
        /\ page.panelOf[reqs[r].form] \in shown

\* C8: every alert leaves the page, the ones the user does not close by their
\* own timer: an alert that is not dismissed stays attached until its timer goes
\* off, the timer goes off once, when the alert is 5000 ms old, and an alert
\* whose timer went off is not in the page.
C8_AutoDismiss ==
    /\ \A a \in 1..MaxAlerts :
          (a \in DOMAIN alerts)
             ~> (a \in DOMAIN alerts /\ alerts[a].fires = 1 /\ ~alerts[a].attached)
    /\ [](\A a \in DOMAIN alerts :
            /\ alerts[a].fires \in {0, 1}
            /\ alerts[a].age <= 5000
            /\ alerts[a].fires = 1 => alerts[a].age = 5000 /\ ~alerts[a].attached
            /\ alerts[a].fires = 0 /\ ~alerts[a].dismissed => alerts[a].attached)
    /\ [][\A a \in DOMAIN alerts :
             alerts[a].attached /\ ~alerts'[a].attached /\ ~alerts'[a].dismissed
                => alerts[a].age = 5000 /\ alerts[a].fires = 0 /\ alerts'[a].fires = 1]_vars

\* an alert nobody closed was removed by its timer while a younger one is shown
C8_Witness ==
    \E a, b \in DOMAIN alerts :
        /\ alerts[a].fires = 1
        /\ ~alerts[a].dismissed
        /\ ~alerts[a].attached
        /\ alerts[b].attached
        /\ alerts[b].age = 2500

\* C9: the timer callback of an alert that the user has closed changes nothing:
\* every alert stays as it is, whether attached or not, and so does the rest of
\* the page; no exception escapes.
C9_DetachedTimerNoop ==
    [][\A a \in 1..MaxAlerts :
          (/\ a \in DOMAIN alerts
           /\ ~alerts[a].attached
           /\ alerts[a].fires = 0
           /\ alerts'[a].fires = 1)
             => /\ alerts' = [alerts EXCEPT ![a].fires = 1]
                /\ UNCHANGED <<page, scoreVars, fields, btn, shown, inst, dispatch, reqs, console,
                               uncaught, calls, sent>>]_vars

\* the timer of a closed alert went off while another alert was in the page
C9_Witness ==
    \E a, b \in DOMAIN alerts :
        /\ alerts[a].dismissed
        /\ alerts[a].fires = 1
        /\ alerts[b].attached
        /\ alerts[b].fires = 0

\* the GET requests among a list of requests handed to fetch, to url
Gets(log, url) == SelectSeq(log, LAMBDA q : q.method = "GET" /\ q.url = url)

\* the URL of call c, written out
ExpectedUrl(c) ==
    CASE calls[c].studentId = "42" /\ calls[c].args = <<>>   -> "/api/recommend/42?top_n=10"
      [] calls[c].studentId = "42" /\ calls[c].args = <<3>>  -> "/api/recommend/42?top_n=3"
      [] calls[c].studentId = "42" /\ calls[c].args = <<25>> -> "/api/recommend/42?top_n=25"
      [] calls[c].studentId = "7" /\ calls[c].args = <<>>    -> "/api/recommend/7?top_n=10"
      [] calls[c].studentId = "7" /\ calls[c].args = <<3>>   -> "/api/recommend/7?top_n=3"
      [] calls[c].studentId = "7" /\ calls[c].args = <<25>>  -> "/api/recommend/7?top_n=25"

\* C10: each call of getRecommendations issues one GET, to
\* /api/recommend/{studentId}?top_n={topN} with 10 for a missing topN; the call
\* never ends in an exception; it returns null when the request fails or the
\* body cannot be decoded, and the decoded body otherwise.
C10_GetRecommendations ==
    /\ Len(sent) = Len(calls)
    /\ \A c \in DOMAIN calls :
          /\ sent[c] = [method |-> "GET", url |-> ExpectedUrl(c)]
          /\ Len(Gets(sent, ExpectedUrl(c)))
                = Cardinality({d \in DOMAIN calls : ExpectedUrl(d) = ExpectedUrl(c)})
          /\ calls[c].pc \in {"fetch", "json", "returned"}
          /\ calls[c].pc = "returned"
                => \/ /\ calls[c].outcome = "decoded"
                      /\ calls[c].result = calls[c].body
                      /\ calls[c].body \in ApiBodies
                   \/ /\ calls[c].outcome \in {"TypeError: Failed to fetch",
                                               "SyntaxError: Unexpected token"}
                      /\ calls[c].result = [kind |-> "null"]
                      /\ \E i \in DOMAIN console : console[i] = <<"API Error:", calls[c].outcome>>

\* one call failed and returned null, another returned the list it was sent
C10_Witness ==
    \E c, d \in DOMAIN calls :
        /\ calls[c].pc = "returned"
        /\ calls[c].outcome = "TypeError: Failed to fetch"
        /\ calls[c].result = [kind |-> "null"]
        /\ calls[d].pc = "returned"
        /\ calls[d].args = <<>>
        /\ calls[d].result = [kind |-> "array", items |-> <<"S1", "S2">>]

\* the score at hand, as a numerator over ScoreScale
TheScore == score[1]

\* C11: for every score s of [0, 1] getScoreColor returns "success" exactly when
\* s >= 0.8, "warning" exactly when 0.6 <= s < 0.8 and "secondary" exactly when
\* s < 0.6: the two boundaries belong to the higher tier and every score gets
\* exactly one of the three labels.
C11_ScoreColor ==
    scoreColor # Undefined =>
        /\ scoreColor \in {"success", "warning", "secondary"}
        /\ scoreColor = "success" <=> 10 * TheScore >= 8 * ScoreScale
        /\ scoreColor = "warning" <=> /\ 10 * TheScore >= 6 * ScoreScale
                                      /\ 10 * TheScore < 8 * ScoreScale
        /\ scoreColor = "secondary" <=> 10 * TheScore < 6 * ScoreScale

\* the score 0.8, a boundary, was given the higher tier
C11_Witness ==
    /\ score # <<>>
    /\ 10 * TheScore = 8 * ScoreScale
    /\ scoreColor = "success"

\* C12: for every score s of [0, 1] formatScore returns s times 100 rounded to
\* one decimal place, that is the digits of some number of tenths n with a point
\* before the last digit and no number of tenths closer to s times 100, followed
\* by a percent sign.
C12_FormatScore ==
    scoreText # Undefined =>
        \E n \in 0 .. 1000 :
            /\ scoreText = ToString(n \div 10) \o "." \o ToString(n % 10) \o "%"
            /\ 2 * (n * ScoreScale - 1000 * TheScore) <= ScoreScale
            /\ 2 * (1000 * TheScore - n * ScoreScale) <= ScoreScale

\* the score 0.873 was formatted as 87.3%
C12_Witness ==
    /\ score # <<>>
    /\ 1000 * TheScore = 873 * ScoreScale
    /\ scoreText = "87.3%"

\* C13: every submit event on a feedback form issues exactly one POST to
\* /feedback, whose body holds the form's field as it is then and the student_id
\* and scholarship_id of that form's data attributes; no other step issues a
\* request, and a request issued keeps its form and its body.
C13_OneRequestPerSubmit ==
    [][/\ \A f \in Forms :
            (dispatch = 0 /\ dispatch' = f) =>
                /\ Len(reqs') = Len(reqs) + 1
                /\ sent' = Append(sent, [method |-> "POST", url |-> "/feedback"])
                /\ reqs'[Len(reqs')].form = f
                /\ reqs'[Len(reqs')].body = [field          |-> fields[f],
                                             student_id     |-> page.student[f],
                                             scholarship_id |-> page.scholarship[f]]
       /\ dispatch' \in {0, dispatch} => sent' = sent /\ Len(reqs') = Len(reqs)
       /\ \A r \in DOMAIN reqs :
            /\ r \in DOMAIN reqs'
            /\ reqs'[r].form = reqs[r].form
            /\ reqs'[r].body = reqs[r].body]_vars

\* two forms were submitted, the second with an edited field: each request
\* carries its own form's scholarship
C13_Witness ==
    /\ Len(reqs) = 2
    /\ Len(sent) = 2
    /\ reqs[1].form = 1
    /\ reqs[1].body.scholarship_id = "A"
    /\ reqs[2].form = 2
    /\ reqs[2].body = [field |-> "useful", student_id |-> page.student[2], scholarship_id |-> "B"]

\* the busy state of a submit button
Busy == [label |-> BusyLabel, disabled |-> TRUE]

\* C14: a submit event puts the form's submit button in the busy state within
\* its own dispatch: on a feedback form the step that follows the first listener
\* is the second listener, which sets the busy state while the request just
\* issued is still unanswered, and on any other form the listener sets it at
\* once.  A button is disabled by a submit listener only, so the busy state of a
\* submission is set before its finally callback runs and never after it.
C14_BusyBeforeReenable ==
    [][/\ \A f \in Forms :
            dispatch = f =>
                /\ reqs # <<>>
                /\ reqs[Len(reqs)].form = f
                /\ reqs[Len(reqs)].pc = "fetch"
                /\ reqs' = reqs
                /\ dispatch' = 0
                /\ page.hasBtn[f] => btn'[f] = Busy
       /\ \A f \in Forms :
            (btn'[f] # btn[f] /\ btn'[f].disabled) =>
                /\ btn'[f] = Busy
                /\ dispatch = f \/ (dispatch = 0 /\ f \notin page.feedback)
                /\ reqs' = reqs
       /\ \A r \in DOMAIN reqs : FinallyRuns(r) => dispatch = 0]_vars

\* a search form and a feedback form were submitted: both buttons are busy, the
\* dispatch is over and the feedback request is still unanswered
C14_Witness ==
    /\ dispatch = 0
    /\ \E f \in Forms \ page.feedback : btn[f] = Busy
    /\ \E r \in DOMAIN reqs :
          /\ reqs[r].pc = "fetch"
          /\ page.hasBtn[reqs[r].form]
          /\ btn[reqs[r].form] = Busy

\* the button, the field and the panel of form f
FormState(f, b, fs, sh) ==
    [btn   |-> b[f],
     field |-> fs[f],
     open  |-> page.panelOf[f] # NoPanel /\ page.panelOf[f] \in sh]

\* C15: with the requests of two different feedback forms in flight, in every
\* order of the responses, a step of one request's chain leaves the button, the
\* field and the panel of every other form as they are, and what it does to its
\* own form is fixed by its own response alone: at most the button enabled with
\* the submit label, the field reset and the panel closed.
C15_FormsIndependent ==
    [][\A r \in DOMAIN reqs :
          reqs'[r].pc # reqs[r].pc =>
              LET f == reqs[r].form
              IN  /\ \A g \in Forms \ {f} :
                        FormState(g, btn', fields', shown') = FormState(g, btn, fields, shown)
                  /\ btn'[f] \in {btn[f], [label |-> SubmitLabel, disabled |-> FALSE]}
                  /\ btn'[f] # btn[f] => reqs[r].pc = "finally"
                  /\ fields'[f] \in {fields[f], ""}
                  /\ shown' \in {shown, shown \ {page.panelOf[f]}}
                  /\ (fields'[f] # fields[f] \/ shown' # shown)
                        => reqs[r].data = [kind |-> "object", status |-> "success", error |-> Undefined]
                  /\ inst' = inst]_vars

\* the second form's response came first: its chain is over and its button is
\* enabled, while the first form's request is still in flight, its button busy
\* and its field as the user left it
C15_Witness ==
    /\ Len(reqs) = 2
    /\ reqs[1].form # reqs[2].form
    /\ reqs[1].pc = "fetch"
    /\ reqs[2].pc = "done"
    /\ btn[reqs[1].form] = Busy
    /\ fields[reqs[1].form] = "useful"
    /\ page.hasBtn[reqs[2].form]
    /\ btn[reqs[2].form] = [label |-> SubmitLabel, disabled |-> FALSE]

\* the response of request r has not been received in full
InFlight(r) == reqs[r].pc \in {"fetch", "then1", "json"}

\* C16: once the dispatch that issued it has finished, a feedback form with a
\* request in flight has its submit button disabled; so with two requests of one
\* form in flight the completion of the first does not enable the button while
\* the second is pending.
C16_DisabledWhileInFlight ==
    \A r \in DOMAIN reqs :
        (InFlight(r) /\ dispatch = 0 /\ page.hasBtn[reqs[r].form])
            => btn[reqs[r].form].disabled

\* C17: once a submit event has put the button of a form that is no feedback
\* form in the busy state, no step changes that button again; the finally
\* callback of a request belongs to a feedback form and changes no button but
\* the one of that form.
C17_SearchButtonStaysBusy ==
    [][/\ \A f \in Forms \ page.feedback : btn[f] = Busy => btn'[f] = Busy
       /\ \A r \in DOMAIN reqs :
            FinallyRuns(r) =>
                /\ reqs[r].form \in page.feedback
                /\ \A g \in Forms \ {reqs[r].form} : btn'[g] = btn[g]]_vars

\* the search form was submitted and a feedback submission has run to its end:
\* the search button is still busy, the feedback button is enabled again
C17_Witness ==
    /\ \E f \in Forms \ page.feedback : page.hasBtn[f] /\ btn[f] = Busy
    /\ \E r \in DOMAIN reqs :
          /\ reqs[r].pc = "done"
          /\ page.hasBtn[reqs[r].form]
          /\ btn[reqs[r].form] = [label |-> SubmitLabel, disabled |-> FALSE]
=============================================================================
